---- MODULE Spec2Model ----
(***************************************************************************)
(* Model of src/agents/live_audio_client.py: the Gemini Live streaming     *)
(* client (GeminiLiveAudioClient) and its session wrapper                  *)
(* (LiveConversationSession).                                              *)
(*                                                                         *)
(* Bytes are sequences over Byte; text is a sequence of lexemes (Tokens),  *)
(* each lexeme standing for one JSON token or one piece of free text.      *)
(* An optional value (Python None / value) is a sequence of length <= 1:   *)
(* None is <<>>, a present value v is <<v>>.                               *)
(***************************************************************************)
EXTENDS Integers, Sequences, FiniteSets, TLC

\* ------------------------------------------------------------------ bounds
MaxChunk == 2        \* chunk_size ranges over 1..MaxChunk
MaxPayload == 2      \* audio payloads have at most this many bytes
MaxMsgs == 2         \* the remote side emits at most this many messages
MaxCalls == 2        \* caller operations inside one conversation_session scope
MaxFnPayload == 4    \* payload length for _chunk_bytes applied as a function
MaxFnChunk == 3      \* chunk sizes for _chunk_bytes applied as a function
MaxTextLen == 3      \* lexemes per text for _parse_analysis_json applied as a function

\* ------------------------------------------------------------- value sets
None == <<>>
Some(v) == <<v>>
Truthy(opt) == opt # None /\ opt[1] # <<>>

Byte == {1, 2}

RECURSIVE SeqsUpTo(_, _)
SeqsUpTo(S, n) ==
    IF n = 0 THEN {<<>>}
    ELSE LET shorter == SeqsUpTo(S, n - 1)
         IN shorter \cup {Append(s, x) : s \in {t \in shorter : Len(t) = n - 1}, x \in S}

\* Payloads of the session model: the first L bytes of 1, 2, 3, ... so that
\* every byte of a payload is distinct and any reordering shows.
Prefix(n) == [i \in 1..n |-> i]
Payloads == {Prefix(n) : n \in 0..MaxPayload}

\* Lexemes of a response text.
\*   " "  one whitespace character
\*   "{" "}" "[" "]" ","  JSON punctuation
\*   "1"  a JSON number literal        "s"  a JSON string literal
\*   "9"  an integer literal of more than 4300 digits
\*   "a"  the member  "accuracy": 0.5
\*   "F"  the six members accuracy, is_correct, feedback, problematic_words,
\*        suggestions, transcription, comma separated
\*   "x"  a word that is not JSON
Tokens == {" ", "{", "}", "[", "]", ",", "1", "s", "9", "a", "F", "x"}

\* Text fragments a message of the session model may carry: the empty string, one
\* lexeme, a padded word, or a whole record.
MsgTexts ==
    {<<>>, <<" ">>, <<"{">>, <<"}">>, <<"x">>, <<" ", "x", " ">>, <<"9">>, <<"1">>,
     <<"{", "F", "}">>}

FeedbackFields ==
    {"accuracy", "is_correct", "feedback", "problematic_words", "suggestions",
     "transcription"}

\* ------------------------------------------------------------ chunking
RECURSIVE Concat(_)
Concat(ss) == IF ss = <<>> THEN <<>> ELSE Head(ss) \o Concat(Tail(ss))

Min(a, b) == IF a < b THEN a ELSE b

\* payload[i : i + n] for a 0-based i
Slice(payload, i, n) == SubSeq(payload, i + 1, Min(i + n, Len(payload)))

\* range(0, len, n) as the ascending sequence of its elements
RECURSIVE RangeFrom(_, _, _)
RangeFrom(i, len, n) ==
    IF i >= len THEN <<>> ELSE <<i>> \o RangeFrom(i + n, len, n)

Client_chunk_bytes_dup(payload, n) ==
    IF payload = <<>> THEN <<>>
    ELSE LET r == RangeFrom(0, Len(payload), n)
         IN [k \in 1..Len(r) |-> Slice(payload, IF k = 1 THEN 0 ELSE r[k - 1], n)]

Client_chunk_bytes(payload, n) ==
    IF payload = <<>> THEN <<>>
    ELSE LET r == RangeFrom(0, Len(payload), n)
         IN [k \in 1..Len(r) |-> Slice(payload, r[k], n)]

Session_chunk_bytes(payload, n) ==
    IF payload = <<>> THEN <<>>
    ELSE LET r == RangeFrom(0, Len(payload), n)
         IN [k \in 1..Len(r) |-> Slice(payload, r[k], n)]

\* ------------------------------------------------------------ text
IsSpace(c) == c = " "

RECURSIVE LStrip(_)
LStrip(s) == IF s # <<>> /\ IsSpace(Head(s)) THEN LStrip(Tail(s)) ELSE s

RECURSIVE RStrip(_)
RStrip(s) ==
    IF s # <<>> /\ IsSpace(s[Len(s)]) THEN RStrip(SubSeq(s, 1, Len(s) - 1)) ELSE s

\* str.strip()
Strip(s) == RStrip(LStrip(s))

\* ------------------------------------------------------------ json.loads
\* A decoded value is [kind, fields, items]: kind "dict" with fields a set of
\* <<key, value>> pairs, kind "list" with items the element kinds, or kind "scalar".
Scalar == [kind |-> "scalar", fields |-> {}, items |-> <<>>]
Dict(fs) == [kind |-> "dict", fields |-> fs, items |-> <<>>]
List(ks) == [kind |-> "list", fields |-> {}, items |-> ks]

Put(fs, k, v) == {p \in fs : p[1] # k} \cup {<<k, v>>}

RECURSIVE PutAll(_, _)
PutAll(fs, ps) ==
    IF ps = {} THEN fs
    ELSE LET p == CHOOSE q \in ps : TRUE
         IN PutAll(Put(fs, p[1], p[2]), ps \ {p})

\* the JSON value null as a member's value; no string of the model spells it
JsonNull == <<"null">>

\* members of an object: "a" and "F" as listed with Tokens, and in a reply of the
\* phrase endpoint "r" for  "response": " hola"  and "n" for  "response": null
MemberFields(tok) ==
    IF tok = "a" THEN {<<"accuracy", <<"0.5">> >>}
    ELSE IF tok = "r" THEN {<<"response", <<" ", "hola">> >>}
    ELSE IF tok = "n" THEN {<<"response", JsonNull>>}
    ELSE {<<k, <<"remote">> >> : k \in FeedbackFields}

IsMember(tok) == tok \in {"a", "F", "r", "n"}

Ok(v, rest) == [st |-> "ok", val |-> v, rest |-> rest]
Fail(kind) == [st |-> kind, val |-> Scalar, rest |-> <<>>]

RECURSIVE ParseValue(_)
RECURSIVE ParseItems(_, _)
RECURSIVE ParseMembers(_, _)

\* the body of an array after one element: "]" ends it, "," asks for another
ParseItems(s, kinds) ==
    LET r == ParseValue(s)
    IN IF r.st # "ok" THEN r
       ELSE LET t == LStrip(r.rest)
                ks == Append(kinds, r.val.kind)
            IN IF t = <<>> THEN Fail("JSONDecodeError")
               ELSE IF Head(t) = "]" THEN Ok(List(ks), Tail(t))
               ELSE IF Head(t) = "," THEN ParseItems(LStrip(Tail(t)), ks)
               ELSE Fail("JSONDecodeError")

\* the body of an object at a member: "}" ends it, "," asks for another member
ParseMembers(s, fs) ==
    IF s = <<>> \/ ~IsMember(Head(s)) THEN Fail("JSONDecodeError")
    ELSE LET t == LStrip(Tail(s))
             gs == PutAll(fs, MemberFields(Head(s)))
         IN IF t = <<>> THEN Fail("JSONDecodeError")
            ELSE IF Head(t) = "}" THEN Ok(Dict(gs), Tail(t))
            ELSE IF Head(t) = "," THEN ParseMembers(LStrip(Tail(t)), gs)
            ELSE Fail("JSONDecodeError")

ParseValue(s) ==
    IF s = <<>> THEN Fail("JSONDecodeError")
    ELSE IF Head(s) \in {"1", "s"} THEN Ok(Scalar, Tail(s))
    ELSE IF Head(s) = "9" THEN Fail("ValueError")
    ELSE IF Head(s) = "[" THEN
        LET t == LStrip(Tail(s))
        IN IF t # <<>> /\ Head(t) = "]" THEN Ok(List(<<>>), Tail(t))
           ELSE ParseItems(t, <<>>)
    ELSE IF Head(s) = "{" THEN
        LET t == LStrip(Tail(s))
        IN IF t # <<>> /\ Head(t) = "}" THEN Ok(Dict({}), Tail(t))
           ELSE ParseMembers(t, {})
    ELSE Fail("JSONDecodeError")

\* json.loads(text): one value, whitespace around it, nothing after it
JsonLoads(text) ==
    LET r == ParseValue(LStrip(text))
    IN IF r.st # "ok" THEN r
       ELSE IF LStrip(r.rest) # <<>> THEN Fail("JSONDecodeError")
       ELSE r

\* ------------------------------------------------------------ outcomes
\* What an operation hands its caller: nothing yet, a returned value (audio bytes
\* or a feedback record as a set of <<field, value>> pairs), or a raised error.
NoResult == [tag |-> "none", error |-> "", audio |-> <<>>, record |-> {}]
ReturnedAudio(b) == [tag |-> "return", error |-> "", audio |-> b, record |-> {}]
ReturnedRecord(fs) == [tag |-> "return", error |-> "", audio |-> <<>>, record |-> fs]
ReturnedNothing == [tag |-> "return", error |-> "", audio |-> <<>>, record |-> {}]
Raised(e) == [tag |-> "raise", error |-> e, audio |-> <<>>, record |-> {}]

NoAudioError == "RuntimeError: Live API returned no audio for phrase synthesis."
NoTextError == "RuntimeError: Live API did not return textual feedback."
TransportError == "TransportError"
CallerError == "CallerError"

CannedFeedback == <<"Unable to analyze pronunciation.">>

DefaultFeedback(raw_text) ==
    {<<"accuracy", <<"0.0">> >>,
     <<"is_correct", <<"False">> >>,
     <<"feedback", IF raw_text # <<>> THEN raw_text ELSE CannedFeedback>>,
     <<"problematic_words", <<"[]">> >>,
     <<"suggestions", <<"[]">> >>,
     <<"transcription", <<>> >>}

\* _parse_analysis_json: a decoded record is returned as it is; JSONDecodeError is
\* caught; a decoded non-record falls through to the default record; any other
\* error of json.loads propagates.
ParseAnalysisJson(raw_text) ==
    LET r == JsonLoads(raw_text)
    IN IF r.st = "ok" /\ r.val.kind = "dict" THEN ReturnedRecord(r.val.fields)
       ELSE IF r.st \in {"ok", "JSONDecodeError"}
            THEN ReturnedRecord(DefaultFeedback(raw_text))
       ELSE Raised(r.st)

\* ------------------------------------------------------------ wire units
Turn(role, text) == [role |-> role, text |-> text]

ContentUnit(turns, turn_complete) ==
    [type |-> "content", turns |-> turns, turn_complete |-> turn_complete, data |-> <<>>]
AudioUnit(chunk) ==
    [type |-> "audio", turns |-> <<>>, turn_complete |-> FALSE, data |-> chunk]
AudioStreamEnd ==
    [type |-> "audio_stream_end", turns |-> <<>>, turn_complete |-> FALSE, data |-> <<>>]
NoUnit == [type |-> "none", turns |-> <<>>, turn_complete |-> FALSE, data |-> <<>>]

SynthSystemText == <<"You stream pronunciation-perfect speech audio ...">>
SynthUserText == <<"Language code: .. Speak this phrase: ..">>
AnalyzeSystemText == <<"You are a pronunciation coach ...">>
AnalyzeUserText == <<"Language code: .. Target phrase: .. Begin evaluating ..">>

\* send_client_content(turns=[system, user]) of synthesize_phrase_audio; turn_complete
\* is not passed, the transport's default (True) applies
SynthPromptUnit ==
    ContentUnit(<<Turn("system", SynthSystemText), Turn("user", SynthUserText)>>, TRUE)

AnalyzePromptUnit ==
    ContentUnit(<<Turn("system", AnalyzeSystemText), Turn("user", AnalyzeUserText)>>, FALSE)

\* send_client_content(turns=None, turn_complete=True)
TurnCompleteUnit == ContentUnit(<<>>, TRUE)

AudioUnits(chunks) == [k \in 1..Len(chunks) |-> AudioUnit(chunks[k])]

Client_stream_audio_chunks_end_first(audio_bytes, n) ==
    <<AudioStreamEnd>> \o AudioUnits(Client_chunk_bytes(audio_bytes, n))

\* _stream_audio_chunks: the sends it issues, in order
Client_stream_audio_chunks(audio_bytes, n) ==
    AudioUnits(Client_chunk_bytes(audio_bytes, n)) \o <<AudioStreamEnd>>

\* LiveConversationSession.send_text
Session_send_text(text, role, turn_complete) ==
    ContentUnit(<<Turn(role, text)>>, turn_complete)

\* LiveConversationSession.send_system_instructions
Session_send_system_instructions(text) == Session_send_text(text, "system", FALSE)

Session_stream_audio_always_end(audio_bytes, end_stream, n) ==
    AudioUnits(Session_chunk_bytes(audio_bytes, n)) \o <<AudioStreamEnd>>

Session_stream_audio_reversed(audio_bytes, end_stream, n) ==
    LET us == AudioUnits(Session_chunk_bytes(audio_bytes, n))
    IN [k \in 1..Len(us) |-> us[Len(us) + 1 - k]]
       \o (IF end_stream THEN <<AudioStreamEnd>> ELSE <<>>)

\* LiveConversationSession.stream_audio: the sends it issues, in order
Session_stream_audio(audio_bytes, end_stream, n) ==
    AudioUnits(Session_chunk_bytes(audio_bytes, n))
        \o (IF end_stream THEN <<AudioStreamEnd>> ELSE <<>>)

\* LiveConversationSession.end_turn
Session_end_turn == TurnCompleteUnit

\* ------------------------------------------------------------ stream config
Config(modalities) ==
    [response_modalities |-> modalities,
     audio_config |-> \E i \in 1..Len(modalities) : modalities[i] = "AUDIO"]
NoConfig == [response_modalities |-> <<>>, audio_config |-> FALSE]

\* list(response_modalities or ["AUDIO", "TEXT"])
ConversationModalities(response_modalities) ==
    IF Truthy(response_modalities) THEN response_modalities[1] ELSE <<"AUDIO", "TEXT">>

ConversationPrelude_always(instr) ==
    <<Session_send_system_instructions(IF instr = None THEN <<>> ELSE instr[1])>>

\* conversation_session, `if instructions: await convo.send_system_instructions(..)`:
\* the sends issued before the yield
ConversationPrelude(instr) ==
    IF Truthy(instr) THEN <<Session_send_system_instructions(instr[1])>> ELSE <<>>

SynthConfig == Config(<<"AUDIO">>)
AnalyzeConfig == Config(<<"TEXT">>)

\* ------------------------------------------------------------ inbound messages
Message(data, text) == [data |-> data, text |-> text]
NoMsg == Message(None, None)

Msgs ==
    {NoMsg}
    \cup {Message(Some(d), None) : d \in {<<>>, <<1>>, <<2>>}}
    \cup {Message(None, Some(t)) : t \in MsgTexts}
    \cup {Message(Some(<<1>>), Some(<<"x">>))}

\* what the caller of conversation_session may pull through convo.receive()
CallerMsgs == {Message(Some(<<1>>), None), Message(None, Some(<<"x">>))}

\* ------------------------------------------------------------ wire events
Event(ev, ok, unit, msg, cfg) ==
    [ev |-> ev, ok |-> ok, unit |-> unit, msg |-> msg, cfg |-> cfg]
OpenEvent(cfg) == Event("open", TRUE, NoUnit, NoMsg, cfg)
SendEvent(unit, ok) == Event("send", ok, unit, NoMsg, NoConfig)
RecvEvent(msg) == Event("recv", TRUE, NoUnit, msg, NoConfig)
RecvEndEvent == Event("recv_end", TRUE, NoUnit, NoMsg, NoConfig)
RecvFailEvent == Event("recv", FALSE, NoUnit, NoMsg, NoConfig)
CloseEvent == Event("close", TRUE, NoUnit, NoMsg, NoConfig)

\* ------------------------------------------------------------ state
VARIABLES
    chunk_size,      \* GeminiLiveAudioClient._chunk_size, fixed per client
    op,              \* the operation in progress
    pc,              \* its position
    wire,            \* every event on the underlying stream, in order
    audio_bytes,     \* analyze_pronunciation's payload
    instructions,    \* conversation_session's instructions (optional)
    modalities,      \* conversation_session's response_modalities (optional)
    todo,            \* the sends the running loop has still to issue
    chunks,          \* _collect_audio's list
    fragments,       \* _collect_text's list
    audio,           \* synthesize_phrase_audio's local
    response_text,   \* analyze_pronunciation's local
    exc,             \* the exception in flight ("" when none)
    calls,           \* the caller's calls inside a conversation_session scope
    result,          \* what the operation handed its caller
    fn_pc, fn_in, fn_out,  \* a helper applied as a function: position, input, output
    user_context,        \* TutorOrchestratorAgent._user_context (optional)
    content_generator,   \* TutorOrchestratorAgent._content_generator
    pending,             \* request_new_phrase calls awaiting generate_phrase
    tutor_log,           \* the orchestrator's calls, collaborator calls and outcomes
    client               \* ContentGeneratorAgent._client

vars ==
    <<chunk_size, op, pc, wire, audio_bytes, instructions, modalities, todo, chunks,
      fragments, audio, response_text, exc, calls, result, fn_pc, fn_in, fn_out,
      user_context, content_generator, pending, tutor_log, client>>

sessionVars ==
    <<op, pc, wire, audio_bytes, instructions, modalities, todo, chunks, fragments,
      audio, response_text, exc, calls, result>>

fnVars == <<fn_pc, fn_in, fn_out>>

agentVars == <<user_context, content_generator, pending, tutor_log, client>>

Idle ==
    /\ op = "idle"
    /\ pc = "idle"
    /\ wire = <<>>
    /\ audio_bytes = <<>>
    /\ instructions = None
    /\ modalities = None
    /\ todo = <<>>
    /\ chunks = <<>>
    /\ fragments = <<>>
    /\ audio = <<>>
    /\ response_text = <<>>
    /\ exc = ""
    /\ calls = <<>>
    /\ result = NoResult

\* no orchestrator and no content generator in use
AgentsIdle ==
    /\ user_context = None
    /\ content_generator = "None"
    /\ pending = 0
    /\ tutor_log = <<>>
    /\ client = "None"

Init ==
    /\ chunk_size \in 1..MaxChunk
    /\ Idle
    /\ fn_pc = "unused"
    /\ fn_in = <<>>
    /\ fn_out = <<>>
    /\ AgentsIdle

\* ------------------------------------------------------------ derived views
Select(evs, kind) == SelectSeq(evs, LAMBDA e : e.ev = kind)

Count(kind) == Cardinality({i \in 1..Len(wire) : wire[i].ev = kind})

\* the units handed to the transport, in order (a failed send included)
Sent == LET es == Select(wire, "send") IN [k \in 1..Len(es) |-> es[k].unit]

\* the messages the transport delivered, in order
Received ==
    LET es == SelectSeq(wire, LAMBDA e : e.ev = "recv" /\ e.ok)
    IN [k \in 1..Len(es) |-> es[k].msg]

Pulls == Count("recv") + Count("recv_end")

\* ------------------------------------------------------------ scope exit
ConnectExit_leaks_on_error(e) == IF e = "" THEN <<CloseEvent>> ELSE <<>>

ConnectExit_never(e) == <<>>

\* _connect, `async with session_cm as session: yield session`: what leaving the
\* block does to the stream, with exception e in flight ("" on a normal exit)
ConnectExit(e) == <<CloseEvent>>

SendOutcome_ignores_failure(unit, ok, next_pc) ==
    /\ wire' = Append(wire, SendEvent(unit, ok))
    /\ pc' = next_pc
    /\ exc' = exc

\* a send raised: the exception leaves the scope
SendOutcome(unit, ok, next_pc) ==
    /\ wire' = Append(wire, SendEvent(unit, ok))
    /\ IF ok THEN pc' = next_pc /\ exc' = exc
             ELSE pc' = "exit" /\ exc' = TransportError

\* ------------------------------------------------------------ operations
StartSynthesize ==
    /\ pc = "idle"
    /\ op' = "synthesize_phrase_audio"
    /\ pc' = "connect"
    /\ UNCHANGED <<chunk_size, wire, audio_bytes, instructions, modalities, todo, chunks,
                   fragments, audio, response_text, exc, calls, result, fnVars, agentVars>>

StartAnalyze ==
    /\ pc = "idle"
    /\ \E payload \in Payloads : audio_bytes' = payload
    /\ op' = "analyze_pronunciation"
    /\ pc' = "connect"
    /\ UNCHANGED <<chunk_size, wire, instructions, modalities, todo, chunks,
                   fragments, audio, response_text, exc, calls, result, fnVars, agentVars>>

StartConversation ==
    /\ pc = "idle"
    /\ \E instr \in {None, Some(<<>>), Some(<<"x">>)} : instructions' = instr
    /\ \E mods \in {None, Some(<<>>), Some(<<"TEXT">>)} : modalities' = mods
    /\ op' = "conversation_session"
    /\ pc' = "connect"
    /\ UNCHANGED <<chunk_size, wire, audio_bytes, todo, chunks,
                   fragments, audio, response_text, exc, calls, result, fnVars, agentVars>>

OpConfig ==
    IF op = "synthesize_phrase_audio" THEN SynthConfig
    ELSE IF op = "analyze_pronunciation" THEN AnalyzeConfig
    ELSE Config(ConversationModalities(modalities))

\* self._client.aio.live.connect(...).__aenter__()
Connect ==
    /\ pc = "connect"
    /\ wire' = Append(wire, OpenEvent(OpConfig))
    /\ pc' = IF op = "conversation_session" THEN "prelude" ELSE "prompt"
    /\ todo' = IF op = "conversation_session" THEN ConversationPrelude(instructions)
               ELSE todo
    /\ UNCHANGED <<chunk_size, op, audio_bytes, instructions, modalities, chunks,
                   fragments, audio, response_text, exc, calls, result, fnVars, agentVars>>

\* the connection is refused: no stream is opened
ConnectFails ==
    /\ pc = "connect"
    /\ pc' = "done"
    /\ result' = Raised(TransportError)
    /\ UNCHANGED <<chunk_size, op, wire, audio_bytes, instructions, modalities, todo,
                   chunks, fragments, audio, response_text, exc, calls, fnVars, agentVars>>

SynthSendPrompt ==
    /\ pc = "prompt" /\ op = "synthesize_phrase_audio"
    /\ \E ok \in BOOLEAN : SendOutcome(SynthPromptUnit, ok, "collect")
    /\ UNCHANGED <<chunk_size, op, audio_bytes, instructions, modalities, todo, chunks,
                   fragments, audio, response_text, calls, result, fnVars, agentVars>>

AnalyzeSendPrompt ==
    /\ pc = "prompt" /\ op = "analyze_pronunciation"
    /\ \E ok \in BOOLEAN :
         /\ SendOutcome(AnalyzePromptUnit, ok, "stream")
         /\ todo' = IF ok THEN Client_stream_audio_chunks(audio_bytes, chunk_size) ELSE todo
    /\ UNCHANGED <<chunk_size, op, audio_bytes, instructions, modalities, chunks,
                   fragments, audio, response_text, calls, result, fnVars, agentVars>>

\* one send of _stream_audio_chunks
AnalyzeStreamStep ==
    /\ pc = "stream" /\ todo # <<>>
    /\ \E ok \in BOOLEAN :
         SendOutcome(Head(todo), ok, IF Len(todo) = 1 THEN "complete_turn" ELSE "stream")
    /\ todo' = Tail(todo)
    /\ UNCHANGED <<chunk_size, op, audio_bytes, instructions, modalities, chunks,
                   fragments, audio, response_text, calls, result, fnVars, agentVars>>

AnalyzeCompleteTurn ==
    /\ pc = "complete_turn"
    /\ \E ok \in BOOLEAN : SendOutcome(TurnCompleteUnit, ok, "collect")
    /\ UNCHANGED <<chunk_size, op, audio_bytes, instructions, modalities, todo, chunks,
                   fragments, audio, response_text, calls, result, fnVars, agentVars>>

CollectAudioKeep_untagged_only(message) == Truthy(message.data) /\ message.text = None

\* _collect_audio, `if data:`
CollectAudioKeep(message) == Truthy(message.data)

\* _collect_text, `if message.text:`
CollectTextKeep(message) == Truthy(message.text)

\* one iteration of `async for message in session.receive()` in _collect_audio
CollectAudioStep ==
    /\ pc = "collect" /\ op = "synthesize_phrase_audio"
    /\ Pulls < MaxMsgs
    /\ \E message \in Msgs :
         /\ wire' = Append(wire, RecvEvent(message))
         /\ chunks' = IF CollectAudioKeep(message)
                      THEN Append(chunks, message.data[1]) ELSE chunks
    /\ UNCHANGED <<chunk_size, op, pc, audio_bytes, instructions, modalities, todo,
                   fragments, audio, response_text, exc, calls, result, fnVars, agentVars>>

CollectAudioEnd_at_first_audio ==
    /\ pc = "collect" /\ op = "synthesize_phrase_audio"
    /\ chunks # <<>>
    /\ audio' = Concat(chunks)
    /\ pc' = "exit"
    /\ UNCHANGED <<chunk_size, op, wire, audio_bytes, instructions, modalities, todo,
                   chunks, fragments, response_text, exc, calls, result, fnVars,
                   agentVars>>

\* the inbound stream ends: _collect_audio returns b"".join(chunks)
CollectAudioEnd ==
    /\ pc = "collect" /\ op = "synthesize_phrase_audio"
    /\ wire' = Append(wire, RecvEndEvent)
    /\ audio' = Concat(chunks)
    /\ pc' = "exit"
    /\ UNCHANGED <<chunk_size, op, audio_bytes, instructions, modalities, todo, chunks,
                   fragments, response_text, exc, calls, result, fnVars, agentVars>>

\* one iteration of `async for message in session.receive()` in _collect_text
CollectTextStep ==
    /\ pc = "collect" /\ op = "analyze_pronunciation"
    /\ Pulls < MaxMsgs
    /\ \E message \in Msgs :
         /\ wire' = Append(wire, RecvEvent(message))
         /\ fragments' = IF CollectTextKeep(message)
                         THEN Append(fragments, message.text[1]) ELSE fragments
    /\ UNCHANGED <<chunk_size, op, pc, audio_bytes, instructions, modalities, todo,
                   chunks, audio, response_text, exc, calls, result, fnVars, agentVars>>

RECURSIVE CollectTextCombined_per_fragment(_)
CollectTextCombined_per_fragment(frags) ==
    IF frags = <<>> THEN <<>>
    ELSE Strip(Head(frags)) \o CollectTextCombined_per_fragment(Tail(frags))

\* _collect_text, `"".join(fragments).strip()`
CollectTextCombined(frags) == Strip(Concat(frags))

\* the inbound stream ends: _collect_text raises on an empty text, else returns it
CollectTextEnd ==
    /\ pc = "collect" /\ op = "analyze_pronunciation"
    /\ wire' = Append(wire, RecvEndEvent)
    /\ LET combined == CollectTextCombined(fragments)
       IN /\ response_text' = combined
          /\ exc' = IF combined = <<>> THEN NoTextError ELSE exc
    /\ pc' = "exit"
    /\ UNCHANGED <<chunk_size, op, audio_bytes, instructions, modalities, todo, chunks,
                   fragments, audio, calls, result, fnVars, agentVars>>

\* session.receive() raises while a reducer drains it
CollectFails ==
    /\ pc = "collect"
    /\ wire' = Append(wire, RecvFailEvent)
    /\ exc' = TransportError
    /\ pc' = "exit"
    /\ UNCHANGED <<chunk_size, op, audio_bytes, instructions, modalities, todo, chunks,
                   fragments, audio, response_text, calls, result, fnVars, agentVars>>

\* ------------------------------------------------------------ conversation_session
\* `if instructions: await convo.send_system_instructions(instructions)`
ConversationSendInstructions ==
    /\ pc = "prelude" /\ todo # <<>>
    /\ \E ok \in BOOLEAN : SendOutcome(Head(todo), ok, "prelude")
    /\ todo' = Tail(todo)
    /\ UNCHANGED <<chunk_size, op, audio_bytes, instructions, modalities, chunks,
                   fragments, audio, response_text, calls, result, fnVars, agentVars>>

\* `yield convo`: the caller's block starts
ConversationYield ==
    /\ pc = "prelude" /\ todo = <<>>
    /\ pc' = "body"
    /\ UNCHANGED <<chunk_size, op, wire, audio_bytes, instructions, modalities, todo,
                   chunks, fragments, audio, response_text, exc, calls, result, fnVars, agentVars>>

Call(name, role, turn_complete, payload, end_stream) ==
    [name |-> name, role |-> role, turn_complete |-> turn_complete,
     payload |-> payload, end_stream |-> end_stream]

CallerText == <<"t">>

CallSendText ==
    /\ pc = "body" /\ Len(calls) < MaxCalls
    /\ \E role \in {"user", "system"}, turn_complete \in BOOLEAN, ok \in BOOLEAN :
         /\ calls' = Append(calls, Call("send_text", role, turn_complete, <<>>, FALSE))
         /\ SendOutcome(Session_send_text(CallerText, role, turn_complete), ok, "body")
    /\ UNCHANGED <<chunk_size, op, audio_bytes, instructions, modalities, todo, chunks,
                   fragments, audio, response_text, result, fnVars, agentVars>>

CallSendSystemInstructions ==
    /\ pc = "body" /\ Len(calls) < MaxCalls
    /\ calls' = Append(calls, Call("send_system_instructions", "system", FALSE, <<>>, FALSE))
    /\ \E ok \in BOOLEAN :
         SendOutcome(Session_send_system_instructions(CallerText), ok, "body")
    /\ UNCHANGED <<chunk_size, op, audio_bytes, instructions, modalities, todo, chunks,
                   fragments, audio, response_text, result, fnVars, agentVars>>

CallEndTurn ==
    /\ pc = "body" /\ Len(calls) < MaxCalls
    /\ calls' = Append(calls, Call("end_turn", "", TRUE, <<>>, FALSE))
    /\ \E ok \in BOOLEAN : SendOutcome(Session_end_turn, ok, "body")
    /\ UNCHANGED <<chunk_size, op, audio_bytes, instructions, modalities, todo, chunks,
                   fragments, audio, response_text, result, fnVars, agentVars>>

\* stream_audio is entered: its loop has the chunks (and the end signal) to send
CallStreamAudio ==
    /\ pc = "body" /\ Len(calls) < MaxCalls
    /\ \E payload \in Payloads, end_stream \in BOOLEAN :
         /\ calls' = Append(calls, Call("stream_audio", "", FALSE, payload, end_stream))
         /\ todo' = Session_stream_audio(payload, end_stream, chunk_size)
         /\ pc' = IF todo' = <<>> THEN "body" ELSE "stream_audio"
    /\ UNCHANGED <<chunk_size, op, wire, audio_bytes, instructions, modalities, chunks,
                   fragments, audio, response_text, exc, result, fnVars, agentVars>>

\* one send of stream_audio
StreamAudioStep ==
    /\ pc = "stream_audio" /\ todo # <<>>
    /\ \E ok \in BOOLEAN :
         SendOutcome(Head(todo), ok, IF Len(todo) = 1 THEN "body" ELSE "stream_audio")
    /\ todo' = Tail(todo)
    /\ UNCHANGED <<chunk_size, op, audio_bytes, instructions, modalities, chunks,
                   fragments, audio, response_text, calls, result, fnVars, agentVars>>

\* the caller pulls one message from convo.receive()
CallReceive ==
    /\ pc = "body" /\ Len(calls) < MaxCalls
    /\ calls' = Append(calls, Call("receive", "", FALSE, <<>>, FALSE))
    /\ \/ /\ \E message \in CallerMsgs : wire' = Append(wire, RecvEvent(message))
          /\ UNCHANGED <<pc, exc>>
       \/ /\ wire' = Append(wire, RecvFailEvent)
          /\ exc' = TransportError
          /\ pc' = "exit"
    /\ UNCHANGED <<chunk_size, op, audio_bytes, instructions, modalities, todo, chunks,
                   fragments, audio, response_text, result, fnVars, agentVars>>

\* the caller's own code raises inside the scope
CallerRaises ==
    /\ pc = "body"
    /\ exc' = CallerError
    /\ pc' = "exit"
    /\ UNCHANGED <<chunk_size, op, wire, audio_bytes, instructions, modalities, todo,
                   chunks, fragments, audio, response_text, calls, result, fnVars, agentVars>>

\* the caller's block ends normally
CallerLeaves ==
    /\ pc = "body"
    /\ pc' = "exit"
    /\ UNCHANGED <<chunk_size, op, wire, audio_bytes, instructions, modalities, todo,
                   chunks, fragments, audio, response_text, exc, calls, result, fnVars, agentVars>>

\* ------------------------------------------------------------ leaving the scope
\* the `async with self._connect(...)` block is left, normally or by an exception
Close ==
    /\ pc = "exit"
    /\ wire' = wire \o ConnectExit(exc)
    /\ IF exc # "" THEN pc' = "done" /\ result' = Raised(exc)
       ELSE IF op = "conversation_session" THEN pc' = "done" /\ result' = ReturnedNothing
       ELSE pc' = "after" /\ result' = result
    /\ UNCHANGED <<chunk_size, op, audio_bytes, instructions, modalities, todo, chunks,
                   fragments, audio, response_text, exc, calls, fnVars, agentVars>>

SynthesizeOutcome_returns_empty(bytes) == ReturnedAudio(bytes)

\* synthesize_phrase_audio, `if not audio: raise RuntimeError(...)`, `return audio`
SynthesizeOutcome(bytes) ==
    IF bytes = <<>> THEN Raised(NoAudioError) ELSE ReturnedAudio(bytes)

SynthesizeReturn ==
    /\ pc = "after" /\ op = "synthesize_phrase_audio"
    /\ result' = SynthesizeOutcome(audio)
    /\ pc' = "done"
    /\ UNCHANGED <<chunk_size, op, wire, audio_bytes, instructions, modalities, todo,
                   chunks, fragments, audio, response_text, exc, calls, fnVars, agentVars>>

\* `return self._parse_analysis_json(response_text)`
AnalyzeReturn ==
    /\ pc = "after" /\ op = "analyze_pronunciation"
    /\ result' = ParseAnalysisJson(response_text)
    /\ pc' = "done"
    /\ UNCHANGED <<chunk_size, op, wire, audio_bytes, instructions, modalities, todo,
                   chunks, fragments, audio, response_text, exc, calls, fnVars, agentVars>>

Next ==
    \/ StartSynthesize \/ StartAnalyze \/ StartConversation
    \/ Connect \/ ConnectFails
    \/ SynthSendPrompt \/ CollectAudioStep \/ CollectAudioEnd
    \/ AnalyzeSendPrompt \/ AnalyzeStreamStep \/ AnalyzeCompleteTurn
    \/ CollectTextStep \/ CollectTextEnd \/ CollectFails
    \/ ConversationSendInstructions \/ ConversationYield
    \/ CallSendText \/ CallSendSystemInstructions \/ CallEndTurn
    \/ CallStreamAudio \/ StreamAudioStep \/ CallReceive
    \/ CallerRaises \/ CallerLeaves
    \/ Close \/ SynthesizeReturn \/ AnalyzeReturn

Spec == Init /\ [][Next]_vars

\* ------------------------------------------------------------ helpers as functions
\* _chunk_bytes applied to every payload up to MaxFnPayload bytes and every
\* chunk size up to MaxFnChunk
InitChunk ==
    /\ chunk_size = 1
    /\ Idle
    /\ fn_pc = "input"
    /\ fn_in \in {[payload |-> p, n |-> n] :
                    p \in SeqsUpTo(Byte, MaxFnPayload), n \in 1..MaxFnChunk}
    /\ fn_out = <<>>
    /\ AgentsIdle

ApplyClientChunkBytes ==
    /\ fn_pc = "input"
    /\ fn_out' = Client_chunk_bytes(fn_in.payload, fn_in.n)
    /\ fn_pc' = "client"
    /\ UNCHANGED <<chunk_size, sessionVars, fn_in, agentVars>>

ApplySessionChunkBytes ==
    /\ fn_pc = "input"
    /\ fn_out' = Session_chunk_bytes(fn_in.payload, fn_in.n)
    /\ fn_pc' = "session"
    /\ UNCHANGED <<chunk_size, sessionVars, fn_in, agentVars>>

NextChunk == ApplyClientChunkBytes \/ ApplySessionChunkBytes

SpecChunk == InitChunk /\ [][NextChunk]_vars

\* _parse_analysis_json applied to every text of up to MaxTextLen lexemes
InitParse ==
    /\ chunk_size = 1
    /\ Idle
    /\ fn_pc = "input"
    /\ fn_in \in SeqsUpTo(Tokens, MaxTextLen)
    /\ fn_out = NoResult
    /\ AgentsIdle

ApplyParseAnalysisJson ==
    /\ fn_pc = "input"
    /\ fn_out' = ParseAnalysisJson(fn_in)
    /\ fn_pc' = "parsed"
    /\ UNCHANGED <<chunk_size, sessionVars, fn_in, agentVars>>

NextParse == ApplyParseAnalysisJson

SpecParse == InitParse /\ [][NextParse]_vars

\* ------------------------------------------------------------ tutor orchestrator
MaxTutorCalls == 3   \* orchestrator calls in one run

MaxPending == 2      \* request_new_phrase calls awaiting their phrase at once

Languages == {"Spanish", "Klingon"}

Difficulties == {"B1 Intermediate"}

Scenarios == {None, Some("hotel")}

UserContext(language, difficulty, scenario) ==
    [language |-> language, difficulty |-> difficulty, scenario |-> scenario]

UsageError == "ValueError: user context not set"

SubscriptNoneError == "TypeError: 'NoneType' object is not subscriptable"

GenerateError == "RuntimeError: phrase generation failed"

ToolError == "RuntimeError: tool failed"

TutorOps ==
    {"request_new_phrase", "present_phrase", "replay_phrase", "analyze_user_speech",
     "provide_feedback"}

Collaborators ==
    {"generate_phrase", "text_to_speech", "speech_to_text", "analyze_pronunciation"}

TutorEvent(kind, name, error, arg) ==
    [kind |-> kind, name |-> name, error |-> error, arg |-> arg]

TutorCall(name) == TutorEvent("call", name, "", "")

Collab(name, arg) == TutorEvent("collab", name, "", arg)

TutorReturn(name) == TutorEvent("return", name, "", "")

TutorRaise(name, error) == TutorEvent("raise", name, error, "")

TutorCalls == Cardinality({i \in 1..Len(tutor_log) : tutor_log[i].kind = "call"})

EnsureContext_unchecked(ctx) == ""

\* _ensure_context: the error it raises, "" when it returns
EnsureContext(ctx) == IF ctx = None THEN UsageError ELSE ""

\* _get_language_code: language_map.get(language, "en")
GetLanguageCode(language) == IF language = "Spanish" THEN "es" ELSE "en"

\* self._user_context["language"] passed through _get_language_code; an error
\* text when the context is None
LanguageCode(ctx) ==
    IF ctx = None THEN SubscriptNoneError ELSE GetLanguageCode(ctx[1].language)

\* the content_generator property: the generator after the access
ContentGeneratorProperty(gen) == IF gen = "None" THEN "created" ELSE gen

nonTutorVars == <<chunk_size, sessionVars, fnVars, client>>

set_user_context(language, difficulty, scenario) ==
    /\ TutorCalls < MaxTutorCalls
    /\ user_context' = Some(UserContext(language, difficulty, scenario))
    /\ tutor_log' = tutor_log \o <<TutorCall("set_user_context"),
                                   TutorReturn("set_user_context")>>
    /\ UNCHANGED <<content_generator, pending, nonTutorVars>>

\* request_new_phrase up to its await of generate_phrase
request_new_phrase ==
    /\ TutorCalls < MaxTutorCalls
    /\ pending < MaxPending
    /\ LET name == "request_new_phrase"
           e == EnsureContext(user_context)
       IN  IF e # ""
           THEN /\ tutor_log' = tutor_log \o <<TutorCall(name), TutorRaise(name, e)>>
                /\ UNCHANGED <<content_generator, pending, nonTutorVars>>
           ELSE /\ content_generator' = ContentGeneratorProperty(content_generator)
                /\ IF user_context = None
                   THEN /\ tutor_log' = tutor_log \o
                              <<TutorCall(name), TutorRaise(name, SubscriptNoneError)>>
                        /\ UNCHANGED pending
                   ELSE /\ tutor_log' = tutor_log \o
                              <<TutorCall(name),
                                Collab("generate_phrase", user_context[1].language)>>
                        /\ pending' = pending + 1
    /\ UNCHANGED <<user_context, nonTutorVars>>

\* generate_phrase completes: request_new_phrase returns the phrase or lets the
\* generator's error through
GeneratePhraseDone ==
    /\ pending > 0
    /\ pending' = pending - 1
    /\ \E ok \in BOOLEAN :
          tutor_log' = Append(tutor_log,
                              IF ok THEN TutorReturn("request_new_phrase")
                                    ELSE TutorRaise("request_new_phrase", GenerateError))
    /\ UNCHANGED <<user_context, content_generator, nonTutorVars>>

\* what a call of a synchronous operation appends after its call event: the
\* tools it calls, in order, until one fails
ToolRun(name, ctx, tools, failing) ==
    LET e == EnsureContext(ctx)
        code == LanguageCode(ctx)
        made == IF failing = 0 THEN tools ELSE SubSeq(tools, 1, failing)
    IN  IF e # "" THEN <<TutorRaise(name, e)>>
        ELSE IF ctx = None THEN <<TutorRaise(name, code)>>
        ELSE [k \in 1..Len(made) |-> Collab(made[k], code)] \o
             <<IF failing = 0 THEN TutorReturn(name) ELSE TutorRaise(name, ToolError)>>

ToolOp(name, tools) ==
    /\ \E failing \in 0..Len(tools) :
          tutor_log' = tutor_log \o <<TutorCall(name)>> \o
                       ToolRun(name, user_context, tools, failing)
    /\ UNCHANGED <<user_context, content_generator, pending, nonTutorVars>>

present_phrase ==
    /\ TutorCalls < MaxTutorCalls
    /\ ToolOp("present_phrase", <<"text_to_speech">>)

replay_phrase ==
    /\ TutorCalls < MaxTutorCalls
    /\ ToolOp("replay_phrase", <<"text_to_speech">>)

analyze_user_speech ==
    /\ TutorCalls < MaxTutorCalls
    /\ ToolOp("analyze_user_speech", <<"speech_to_text", "analyze_pronunciation">>)

provide_feedback ==
    /\ TutorCalls < MaxTutorCalls
    /\ ToolOp("provide_feedback", <<"text_to_speech">>)

InitTutor ==
    /\ chunk_size = 1
    /\ Idle
    /\ fn_pc = "unused"
    /\ fn_in = <<>>
    /\ fn_out = <<>>
    /\ user_context = None
    /\ content_generator \in {"None", "given"}
    /\ pending = 0
    /\ tutor_log = <<>>
    /\ client = "None"

NextTutor ==
    \/ \E l \in Languages, d \in Difficulties, s \in Scenarios :
          set_user_context(l, d, s)
    \/ request_new_phrase
    \/ GeneratePhraseDone
    \/ present_phrase
    \/ replay_phrase
    \/ analyze_user_speech
    \/ provide_feedback

SpecTutor == InitTutor /\ [][NextTutor]_vars

\* ------------------------------------------------------------ content generator
MaxBodyLen == 3   \* lexemes in a reply body of the phrase endpoint

\* Lexemes of a reply body: whitespace, JSON punctuation, a number, an over-long
\* integer literal, the members "r" and "n" of MemberFields, a word that is not JSON
BodyTokens == {" ", "{", "}", "[", "]", "1", "9", "r", "n", "x"}

\* one exchange with the endpoint: whether the POST got an answer, the answer's
\* status, and its body
Exchange(post, status, body) == [post |-> post, status |-> status, body |-> body]

Exchanges ==
    {Exchange(post, status, body) :
        post \in {"ok", "httpx.ConnectError"},
        status \in {200, 500},
        body \in SeqsUpTo(BodyTokens, MaxBodyLen)}

OllamaPending == [tag |-> "none", error |-> "", text |-> <<>>]

OllamaReturned(text) == [tag |-> "return", error |-> "", text |-> text]

OllamaRaised(error) == [tag |-> "raise", error |-> error, text |-> <<>>]

RequestFailed == "RuntimeError: Ollama request failed"

ParseFailed == "RuntimeError: Failed to parse Ollama response"

NotADict == "AttributeError: object has no attribute 'get'"

NotAString == "AttributeError: object has no attribute 'strip'"

\* dict.get(key, default)
Get(fs, key, default) ==
    IF \E p \in fs : p[1] = key THEN (CHOOSE p \in fs : p[1] = key)[2] ELSE default

\* _get_client: the client after the call
GetClient(c) == IF c = "None" THEN "created" ELSE c

\* _call_ollama after _get_client: post, raise_for_status, response.json(),
\* result.get("response", "").strip(), and the two except clauses
CallOllama(x) ==
    IF x.post # "ok" THEN OllamaRaised(RequestFailed)
    ELSE IF x.status # 200 THEN OllamaRaised(RequestFailed)
    ELSE LET r == JsonLoads(x.body)
         IN  IF r.st = "JSONDecodeError" THEN OllamaRaised(ParseFailed)
             ELSE IF r.st # "ok" THEN OllamaRaised(r.st)
             ELSE IF r.val.kind # "dict" THEN OllamaRaised(NotADict)
             ELSE LET v == Get(r.val.fields, "response", <<>>)
                  IN  IF v = JsonNull THEN OllamaRaised(NotAString)
                      ELSE OllamaReturned(Strip(v))

InitOllama ==
    /\ chunk_size = 1
    /\ Idle
    /\ fn_pc = "input"
    /\ fn_in \in Exchanges
    /\ fn_out = OllamaPending
    /\ user_context = None
    /\ content_generator = "given"
    /\ pending = 0
    /\ tutor_log = <<>>
    /\ client \in {"None", "created"}

ApplyCallOllama ==
    /\ fn_pc = "input"
    /\ client' = GetClient(client)
    /\ fn_out' = CallOllama(fn_in)
    /\ fn_pc' = "called"
    /\ UNCHANGED <<chunk_size, sessionVars, fn_in, user_context, content_generator,
                   pending, tutor_log>>

NextOllama == ApplyCallOllama

SpecOllama == InitOllama /\ [][NextOllama]_vars

\* ------------------------------------------------------------ properties
IsPrefix(a, b) == Len(a) <= Len(b) /\ a = SubSeq(b, 1, Len(a))

AllSendsOk == \A i \in 1..Len(wire) : wire[i].ev = "send" => wire[i].ok

CeilDiv(a, b) == (a + b - 1) \div b

\* the chunks of a payload as the specification words them: chunk k holds bytes
\* (k-1)N+1 .. min(kN, L)
ChunksOf(payload, n) ==
    [k \in 1..CeilDiv(Len(payload), n) |->
        SubSeq(payload, (k - 1) * n + 1, Min(k * n, Len(payload)))]

\* C1: every stream that was opened is closed exactly once when its scope has been
\* left, on every exit path (normal return, a failed send, a failed receive, an
\* exception of the caller's own code); a stream is never closed more often than it
\* was opened, and a refused connection opens and closes nothing.
C1_ClosedExactlyOnce ==
    LET opens == Count("open")
        closes == Count("close")
    IN /\ opens <= 1
       /\ closes <= opens
       /\ pc \in {"after", "done"} => closes = opens
       /\ pc \in {"prompt", "prelude", "body", "stream", "stream_audio", "complete_turn",
                  "collect", "exit"} => opens = 1 /\ closes = 0

C1_Witness_SendRaised ==
    /\ pc = "done"
    /\ result = Raised(TransportError)
    /\ \E i \in 1..Len(wire) : wire[i].ev = "send" /\ ~wire[i].ok
    /\ Count("open") = 1
    /\ Count("close") = 1

AnalyzeExpected(payload, n) ==
    <<ContentUnit(<<Turn("system", AnalyzeSystemText), Turn("user", AnalyzeUserText)>>,
                  FALSE)>>
    \o [k \in 1..CeilDiv(Len(payload), n) |-> AudioUnit(ChunksOf(payload, n)[k])]
    \o <<AudioStreamEnd>>
    \o <<ContentUnit(<<>>, TRUE)>>

\* C2: in analyze_pronunciation the sends are, in this order, the system+user content
\* send with turn_complete=false, the audio chunks in payload order, one
\* audio-stream-end signal, one empty content send with turn_complete=true; no
\* receive starts before all of them were sent successfully.
C2_AnalyzeSendOrder ==
    op = "analyze_pronunciation" =>
        /\ LET sent == Sent
               expected == AnalyzeExpected(audio_bytes, chunk_size)
           IN /\ IsPrefix(sent, expected)
              /\ (pc = "collect" \/ Pulls > 0 \/ result.tag = "return") =>
                     (sent = expected /\ AllSendsOk)
        /\ \A i, j \in 1..Len(wire) :
               wire[i].ev = "send" /\ wire[j].ev \in {"recv", "recv_end"} => i < j

C2_Witness_TwoChunksThenReceive ==
    /\ op = "analyze_pronunciation"
    /\ Len(audio_bytes) = 2 /\ chunk_size = 1
    /\ Len(Received) = 1
    /\ Len(Sent) = 5

CallUnits(call, n) ==
    IF call.name = "send_text"
        THEN <<ContentUnit(<<Turn(call.role, CallerText)>>, call.turn_complete)>>
    ELSE IF call.name = "send_system_instructions"
        THEN <<ContentUnit(<<Turn("system", CallerText)>>, FALSE)>>
    ELSE IF call.name = "end_turn"
        THEN <<ContentUnit(<<>>, TRUE)>>
    ELSE IF call.name = "stream_audio"
        THEN [k \in 1..CeilDiv(Len(call.payload), n) |->
                 AudioUnit(ChunksOf(call.payload, n)[k])]
             \o (IF call.end_stream THEN <<AudioStreamEnd>> ELSE <<>>)
    ELSE <<>>

RECURSIVE CallsUnits(_, _)
CallsUnits(cs, n) ==
    IF cs = <<>> THEN <<>> ELSE CallUnits(Head(cs), n) \o CallsUnits(Tail(cs), n)

\* the sends issued before the caller got the session
PreludeLen == IF instructions # None /\ instructions[1] # <<>> THEN 1 ELSE 0

\* the sends issued by the caller's calls
CallerSent == SubSeq(Sent, PreludeLen + 1, Len(Sent))

\* C3: on one LiveConversationSession the units handed to the transport are the
\* concatenation, in call order, of each call's units: one turn per send_text /
\* send_system_instructions, the chunks of each stream_audio in payload order followed
\* by its end signal if requested, one empty turn_complete=true turn per end_turn.
C3_SessionFifo ==
    op = "conversation_session" =>
        LET sent == CallerSent
            units == CallsUnits(calls, chunk_size)
        IN /\ IsPrefix(sent, units)
           /\ (pc = "body" \/ (pc \in {"exit", "done"} /\ AllSendsOk)) => sent = units

C3_Witness_StreamThenEndTurn ==
    /\ op = "conversation_session" /\ pc = "body"
    /\ chunk_size = 1
    /\ Len(calls) = 2
    /\ calls[1].name = "stream_audio" /\ Len(calls[1].payload) = 2 /\ calls[1].end_stream
    /\ calls[2].name = "end_turn"
    /\ Len(CallerSent) = 4

\* C4: for a payload of length L and a chunk size N > 0, both copies of _chunk_bytes
\* return ceil(L/N) chunks, each of length N except the last, whose length is L mod N
\* (N when L mod N = 0); the chunks concatenated give the payload; L = 0 gives none.
C4_ChunkingExact ==
    fn_pc \in {"client", "session"} =>
        LET L == Len(fn_in.payload)
            N == fn_in.n
            K == Len(fn_out)
        IN /\ K = CeilDiv(L, N)
           /\ \A k \in 1..K :
                Len(fn_out[k]) = IF k < K \/ L % N = 0 THEN N ELSE L % N
           /\ Concat(fn_out) = fn_in.payload
           /\ L = 0 => fn_out = <<>>

C4_Witness_ShortLastChunk ==
    /\ fn_pc = "session"
    /\ Len(fn_in.payload) = 3 /\ fn_in.n = 2
    /\ Len(fn_out) = 2 /\ Len(fn_out[2]) = 1

CarriesAudio(message) == message.data # None /\ Len(message.data[1]) > 0

StreamEnded == Count("recv_end") = 1

\* C5: once the inbound stream has ended, synthesize_phrase_audio raises the
\* empty-result error exactly when no message carried non-empty audio data, and
\* otherwise returns a non-empty byte string; it never returns an empty one.
C5_SynthesisEmptyResult ==
    (op = "synthesize_phrase_audio" /\ pc = "done") =>
        LET heard == \E i \in 1..Len(Received) : CarriesAudio(Received[i])
        IN /\ result.error = NoAudioError <=> (StreamEnded /\ ~heard)
           /\ (StreamEnded /\ heard) => (result.tag = "return" /\ result.audio # <<>>)
           /\ result.tag = "return" => (result.audio # <<>> /\ StreamEnded)

C5_Witness_TextOnlyStreamRaises ==
    /\ op = "synthesize_phrase_audio" /\ pc = "done"
    /\ StreamEnded
    /\ Len(Received) = 2
    /\ \A i \in 1..2 : Received[i].text # None /\ Received[i].data = None
    /\ result = Raised(NoAudioError)

\* the text of the text-bearing messages, in arrival order, as one text
RECURSIVE JoinedText(_)
JoinedText(ms) ==
    IF ms = <<>> THEN <<>>
    ELSE (IF Head(ms).text # None THEN Head(ms).text[1] ELSE <<>>) \o JoinedText(Tail(ms))

Trimmed(text) ==
    LET first == {i \in 1..Len(text) : text[i] # " "}
    IN IF first = {} THEN <<>>
       ELSE SubSeq(text, CHOOSE i \in first : \A j \in first : i <= j,
                         CHOOSE i \in first : \A j \in first : j <= i)

\* C6: once the inbound stream has ended, analyze_pronunciation raises the
\* empty-result error exactly when the inbound text, trimmed, is empty; when the
\* trimmed text is non-empty it raises nothing, whatever the text is, and returns a
\* feedback record.
C6_AnalysisRaisesOnlyOnEmptyText ==
    (op = "analyze_pronunciation" /\ pc = "done" /\ StreamEnded) =>
        LET text == Trimmed(JoinedText(Received))
        IN /\ result.error = NoTextError <=> text = <<>>
           /\ text # <<>> => result.tag = "return"

DefaultRecordOf(raw_text) ==
    {<<"accuracy", <<"0.0">> >>, <<"is_correct", <<"False">> >>,
     <<"problematic_words", <<"[]">> >>, <<"suggestions", <<"[]">> >>,
     <<"transcription", <<>> >>,
     <<"feedback",
       IF raw_text = <<>> THEN <<"Unable to analyze pronunciation.">> ELSE raw_text>>}

\* C7: _parse_analysis_json returns the decoded record unchanged when the whole text
\* decodes as JSON to a record, and in every other case (the text does not decode, or
\* decodes to a string, number, array, boolean or null) returns the default record
\* whose feedback is the raw text, or the canned string for an empty raw text.
C7_ParseAllOrNothing ==
    fn_pc = "parsed" =>
        LET r == JsonLoads(fn_in)
        IN IF r.st = "ok" /\ r.val.kind = "dict"
           THEN fn_out = ReturnedRecord(r.val.fields)
           ELSE fn_out = ReturnedRecord(DefaultRecordOf(fn_in))

HasField(record, k) == \E p \in record : p[1] = k

\* C8: every feedback record analyze_pronunciation returns has all six fields
\* accuracy, is_correct, feedback, problematic_words, suggestions, transcription.
C8_FeedbackFullyPopulated ==
    (op = "analyze_pronunciation" /\ pc = "done" /\ result.tag = "return") =>
        \A k \in FeedbackFields : HasField(result.record, k)

AtYield == op = "conversation_session" /\ pc = "body" /\ calls = <<>>

\* C9 (as stated): when instructions are supplied, exactly one system turn carrying
\* them, turn_complete=false, is sent after the open and before the caller gets the
\* session; when none are supplied nothing is sent before that; unspecified
\* response_modalities open the stream with AUDIO and TEXT.
C9_AsStated_PreludeWhenSupplied ==
    /\ AtYield =>
         /\ wire[1].ev = "open"
         /\ modalities = None => wire[1].cfg.response_modalities = <<"AUDIO", "TEXT">>
         /\ IF instructions # None
            THEN /\ Len(wire) = 2
                 /\ wire[2].ev = "send" /\ wire[2].ok
                 /\ wire[2].unit =
                      ContentUnit(<<Turn("system", instructions[1])>>, FALSE)
            ELSE Len(wire) = 1
    /\ (op = "conversation_session" /\ pc \in {"connect", "prelude"}) => calls = <<>>

\* C9 (amended): the system turn is sent when the instructions supplied are a
\* non-empty string; for no instructions or an empty string nothing is sent before
\* the caller gets the session.
C9_PreludeWhenNonEmpty ==
    /\ AtYield =>
         /\ wire[1].ev = "open"
         /\ modalities = None => wire[1].cfg.response_modalities = <<"AUDIO", "TEXT">>
         /\ IF instructions # None /\ instructions[1] # <<>>
            THEN /\ Len(wire) = 2
                 /\ wire[2].ev = "send" /\ wire[2].ok
                 /\ wire[2].unit =
                      ContentUnit(<<Turn("system", instructions[1])>>, FALSE)
            ELSE Len(wire) = 1
    /\ (op = "conversation_session" /\ pc \in {"connect", "prelude"}) => calls = <<>>

C9_Witness_InstructionsSentBeforeYield ==
    /\ AtYield
    /\ instructions = Some(<<"x">>)
    /\ modalities = None
    /\ Len(Sent) = 1
    /\ wire[1].cfg.response_modalities = <<"AUDIO", "TEXT">>

IsEnd(unit) == unit.type = "audio_stream_end"

NumEnds(units) == Cardinality({i \in 1..Len(units) : IsEnd(units[i])})

EndsRequested == Cardinality({i \in 1..Len(calls) :
                     calls[i].name = "stream_audio" /\ calls[i].end_stream})

LastCallSent ==
    LET c == calls[Len(calls)]
        m == CeilDiv(Len(c.payload), chunk_size) + (IF c.end_stream THEN 1 ELSE 0)
        sent == Sent
    IN SubSeq(sent, Len(sent) - m + 1, Len(sent))

\* C10: a completed stream_audio(payload, end_stream) has sent the payload's chunks
\* on the realtime-audio channel in order, none of them empty, followed by exactly
\* one audio-stream-end signal when end_stream is true and none when it is false; a
\* zero-length payload with end_stream sends the end signal alone.
C10_StreamAudioUnits ==
    /\ \A i \in 1..Len(wire) :
         (wire[i].ev = "send" /\ wire[i].unit.type = "audio") => wire[i].unit.data # <<>>
    /\ (op = "conversation_session" /\ pc = "body" /\ calls # <<>>
        /\ calls[Len(calls)].name = "stream_audio") =>
          LET c == calls[Len(calls)]
              us == LastCallSent
              audioUnits == SelectSeq(us, LAMBDA u : u.type = "audio")
          IN /\ Concat([k \in 1..Len(audioUnits) |-> audioUnits[k].data]) = c.payload
             /\ \A k \in 1..Len(us) : us[k].type = "audio" <=> k <= Len(audioUnits)
             /\ NumEnds(us) = IF c.end_stream THEN 1 ELSE 0
             /\ (c.payload = <<>> /\ c.end_stream) => us = <<AudioStreamEnd>>
    /\ (op = "conversation_session" /\ pc = "body") => NumEnds(Sent) = EndsRequested

C10_Witness_EmptyPayloadEndOnly ==
    /\ op = "conversation_session" /\ pc = "body"
    /\ Len(calls) = 1
    /\ calls[1].name = "stream_audio" /\ calls[1].payload = <<>> /\ calls[1].end_stream
    /\ CallerSent = <<AudioStreamEnd>>

ContextSetBefore(i) ==
    \E j \in 1..(i - 1) :
        tutor_log[j].kind = "call" /\ tutor_log[j].name = "set_user_context"

\* C11: an operation of the orchestrator (request_new_phrase, present_phrase,
\* replay_phrase, analyze_user_speech, provide_feedback) invoked before any
\* set_user_context raises the usage error at once: no collaborator is called and
\* the context, the content generator and the calls in flight are as they were.
\* Once set_user_context has been called no operation raises the usage error.
C11_UsageErrorUntilContextSet ==
    /\ \A i \in 1..Len(tutor_log) :
          LET ev == tutor_log[i]
          IN  /\ (ev.kind = "call" /\ ev.name \in TutorOps /\ ~ContextSetBefore(i))
                    => /\ i < Len(tutor_log)
                       /\ tutor_log[i + 1] = TutorRaise(ev.name, UsageError)
              /\ (ev.kind = "raise" /\ ev.error = UsageError) => ~ContextSetBefore(i)
              /\ ev.kind = "collab" => ContextSetBefore(i)
    /\ ~ContextSetBefore(Len(tutor_log) + 1)
          => user_context = None /\ content_generator # "created" /\ pending = 0

\* request_new_phrase raised the usage error, then the context was set and the
\* same operation went on to the content generator
C11_Witness_RaisesThenProceeds ==
    /\ Len(tutor_log) >= 6
    /\ tutor_log[1] = TutorCall("request_new_phrase")
    /\ tutor_log[2] = TutorRaise("request_new_phrase", UsageError)
    /\ tutor_log[3] = TutorCall("set_user_context")
    /\ tutor_log[5] = TutorCall("request_new_phrase")
    /\ tutor_log[6].kind = "collab"
    /\ content_generator = "created"

\* the reply is the record the caller counts on: an answer with a success status
\* whose body is one JSON object holding a string under "response"
ExpectedReply(x) ==
    /\ x.post = "ok"
    /\ x.status = 200
    /\ LET r == JsonLoads(x.body)
       IN  /\ r.st = "ok"
           /\ r.val.kind = "dict"
           /\ \E p \in r.val.fields : p[1] = "response" /\ p[2] # JsonNull

\* C12: every failure of the phrase-generation call (no answer, an error status,
\* a body that is not JSON or not a record with a string under "response") reaches
\* the caller as RuntimeError, and only an expected reply returns a string.
C12_FailuresAreRuntimeErrors ==
    fn_pc = "called" =>
        IF ExpectedReply(fn_in) THEN fn_out.tag = "return"
        ELSE fn_out.tag = "raise" /\ fn_out.error \in {RequestFailed, ParseFailed}

\* the data of the audio-bearing messages, in arrival order, as one byte string
RECURSIVE JoinedAudio(_)
JoinedAudio(ms) ==
    IF ms = <<>> THEN <<>>
    ELSE (IF Head(ms).data # None THEN Head(ms).data[1] ELSE <<>>) \o JoinedAudio(Tail(ms))

\* C13: the audio reducer holds, after every message, the data of the audio-bearing
\* messages received so far in arrival order, and when the inbound stream ends it
\* returns exactly their concatenation; a message without audio data adds nothing
\* and raises nothing.
C13_CollectAudioConcatenates ==
    op = "synthesize_phrase_audio" =>
        LET heard == JoinedAudio(Received)
        IN  /\ Concat(chunks) = heard
            /\ StreamEnded => (audio = heard /\ exc = "")

C13_Witness_MixedStream ==
    /\ op = "synthesize_phrase_audio" /\ pc = "done"
    /\ StreamEnded
    /\ Len(Received) = 2
    /\ Received[1].data = None /\ Received[1].text # None
    /\ Received[2] = Message(Some(<<1>>), Some(<<"x">>))
    /\ result = ReturnedAudio(<<1>>)

\* C14: the text reducer keeps the text of every text-bearing message in arrival
\* order and skips the others; when the inbound stream ends its result is the
\* concatenation, with no separator, trimmed once as a whole, so whitespace at
\* fragment boundaries inside the text stays.
C14_CollectTextTrimsWhole ==
    op = "analyze_pronunciation" =>
        LET said == JoinedText(Received)
        IN  /\ Concat(fragments) = said
            /\ StreamEnded => response_text = Trimmed(said)

C14_Witness_InteriorWhitespaceKept ==
    /\ op = "analyze_pronunciation"
    /\ StreamEnded
    /\ Len(Received) = 2
    /\ Received[1].text = Some(<<" ", "x", " ">>)
    /\ Received[2].text = Some(<<"x">>)
    /\ response_text = <<"x", " ", "x">>

\* C15: synthesize_phrase_audio and analyze_pronunciation hand their caller no
\* result, and hold no reduced value, before the inbound stream has ended; a
\* returned result comes after the end and the reducer has taken every message
\* that was delivered before it.
C15_NoResultBeforeStreamEnd ==
    op \in {"synthesize_phrase_audio", "analyze_pronunciation"} =>
        /\ ~StreamEnded => (result.tag # "return" /\ audio = <<>> /\ response_text = <<>>)
        /\ result.tag = "return" =>
              /\ StreamEnded
              /\ wire[Len(wire) - 1].ev = "recv_end"
              /\ op = "synthesize_phrase_audio" => result.audio = JoinedAudio(Received)
              /\ op = "analyze_pronunciation" => Concat(fragments) = JoinedText(Received)

C15_Witness_ReturnAfterTwoMessages ==
    /\ op = "synthesize_phrase_audio" /\ pc = "done"
    /\ Len(Received) = 2
    /\ StreamEnded
    /\ result = ReturnedAudio(<<1, 2>>)

\* C16: in synthesize_phrase_audio and analyze_pronunciation the close of the
\* stream is the last thing that happens on it: nothing is sent or received after
\* it, and whatever the operation hands its caller (audio, feedback record, or an
\* error, the empty-audio error decided outside the scope and the empty-text error
\* raised inside it included) is handed over only after the close of the stream
\* it opened.
C16_CloseBeforeCompletion ==
    op \in {"synthesize_phrase_audio", "analyze_pronunciation"} =>
        LET n == Len(wire)
        IN  /\ \A i \in 1..n : wire[i].ev = "close" => i = n
            /\ (n > 0 /\ (result # NoResult \/ pc = "after")) => wire[n].ev = "close"
            /\ (pc = "exit" /\ exc = NoTextError) => wire[n].ev = "recv_end"

C16_Witness_EmptyTextAfterClose ==
    /\ op = "analyze_pronunciation" /\ pc = "done"
    /\ result = Raised(NoTextError)
    /\ Len(wire) >= 2
    /\ wire[Len(wire)].ev = "close"
    /\ wire[Len(wire) - 1].ev = "recv_end"

\* C17: in analyze_pronunciation a send that fails (the opening content or any
\* audio chunk, end signal or turn completion) is the last send: nothing is
\* received afterwards, no feedback record is returned, and the error of the send
\* is what the caller gets.
C17_FailStopOnSendFailure ==
    op = "analyze_pronunciation" =>
        \A i \in 1..Len(wire) :
            (wire[i].ev = "send" /\ ~wire[i].ok) =>
                /\ \A j \in (i + 1)..Len(wire) : wire[j].ev = "close"
                /\ result.tag # "return"
                /\ exc = TransportError
                /\ pc \in {"exit", "done"}
                /\ pc = "done" => result = Raised(TransportError)

C17_Witness_SecondChunkFails ==
    /\ op = "analyze_pronunciation" /\ pc = "done"
    /\ Len(wire) = 5
    /\ wire[3].ev = "send" /\ wire[3].ok
    /\ wire[4].ev = "send" /\ ~wire[4].ok /\ wire[4].unit.type = "audio"
    /\ wire[5].ev = "close"
    /\ result = Raised(TransportError)

====
